---- MODULE Spec2Model ----
(***************************************************************************)
(* A model of the BlogAutoHub worker.                                      *)
(*                                                                         *)
(*   Spec         main.py: the runs of generate_and_post (scheduler jobs   *)
(*                and /run-now threads) of the worker processes, the       *)
(*                in-memory history USED_VIDEOS of each process, the used  *)
(*                videos file on GitHub and the blog.                      *)
(*   SpecSearch   youtube_video_selector.py: search_videos, rank_videos    *)
(*                and the request get_video_details sends.                 *)
(*   SpecRefresh  generate_youtube_json.py: one refresh run of main().     *)
(*   SpecScore    youtube_video_selector.py: video_score and the filter of *)
(*                rank_videos, applied to one candidate.                   *)
(*   SpecRank     youtube_video_selector.py: get_video_details, rank_videos *)
(*                and select_top_video on the candidates of one search.     *)
(*   SpecPick     main.py: one pass of find_qualified_video over the        *)
(*                candidates of one search.                                 *)
(***************************************************************************)
EXTENDS Integers, Sequences, FiniteSets, TLC

VARIABLES
    \* ---- main.py
    store,          \* the used-videos file on GitHub: [exists, videos, sha]
    loaded,         \* per process: what load_used_videos returned (main.py:137)
    USED_VIDEOS,    \* per process: the module global USED_VIDEOS
    LAST_STATUS,    \* per process: last_result / last_error of LAST_STATUS
    posted,         \* per process: the video ids it published, in order
    pc,             \* per run: where the run is in generate_and_post
    proc,           \* per run: the process the run's thread lives in
    pass,           \* per run: search passes of find_qualified_video begun
    vid,            \* per run: the local vid
    \* ---- youtube_video_selector.py
    max_results,    \* the argument of search_videos
    available,      \* items the search provider has for the keyword
    videos,         \* the list search_videos accumulates
    next_page_token,\* the page token: the offset of the next page, or None
    spc,            \* where the call of select_top_video is
    search_requests,\* search requests sent so far
    search_failed,  \* whether a search request raised HttpError
    detail_requests,\* the id lists sent to the detail provider, in order
    \* ---- generate_youtube_json.py
    now,            \* datetime.now(), in days
    refresh_tiers,  \* the tiers refreshed today
    cache,          \* the dict cache: video id -> [score, niche, last_updated]
    cacheFile,      \* the content of youtube_videos_cache.json
    output,         \* the list output
    niche_i,        \* the niche being processed (index in NICHES)
    tier_i,         \* the tier being searched (index in refresh_tiers)
    kw_i,           \* the keyword being searched (index in the tier's list)
    unique_video_ids, \* the set unique_video_ids of the niche
    video_ids_list, \* list(unique_video_ids)
    batch_i,        \* the loop variable i of the batch loop
    batch_log,      \* the detail requests sent in this run and their outcome
    rpc,            \* where main() is
    \* ---- youtube_video_selector.py: video_score
    AVD,            \* the argument AVD, minutes (a rational [n, d])
    VL,             \* the argument VL, minutes (a rational)
    VA_weeks,       \* the argument VA_weeks (a rational)
    final_score,    \* the value video_score returned (a rational)
    kept,           \* whether the filter of rank_videos kept the candidate
    scpc,           \* where the scoring of the candidate is
    \* ---- youtube_video_selector.py: get_video_details and rank_videos
    candidates,     \* the searched videos as the detail provider holds them
    returned_ids,   \* the ids whose item the detail provider returned
    details,        \* the dict get_video_details returned
    rank_i,         \* candidates rank_videos has gone through
    filtered,       \* the list filtered of rank_videos
    top_video,      \* what select_top_video returned: <<>> is None
    rkpc,           \* where the call of select_top_video is
    \* ---- main.py: one pass of find_qualified_video
    response,       \* candidates: the video ids of the search, in its order
    history,        \* USED_VIDEOS during the pass
    transcripts,    \* the videos whose transcript qualify_transcript accepts
    pick_i,         \* candidates the loop has gone through
    picked,         \* the video_id returned: <<>> when none is
    ppc             \* where the pass is

mainVars == <<store, loaded, USED_VIDEOS, LAST_STATUS, posted, pc, proc, pass, vid>>

searchVars == <<max_results, available, videos, next_page_token, spc,
                search_requests, search_failed, detail_requests>>

refreshVars == <<now, refresh_tiers, cache, cacheFile, output, niche_i, tier_i, kw_i,
                 unique_video_ids, video_ids_list, batch_i, batch_log, rpc>>

scoreVars == <<AVD, VL, VA_weeks, final_score, kept, scpc>>

rankVars == <<candidates, returned_ids, details, rank_i, filtered, top_video, rkpc>>

pickVars == <<response, history, transcripts, pick_i, picked, ppc>>

vars == <<mainVars, searchVars, refreshVars, scoreVars, rankVars, pickVars>>

notMain == <<searchVars, refreshVars, scoreVars, rankVars, pickVars>>

notSearch == <<mainVars, refreshVars, scoreVars, rankVars, pickVars>>

notRefresh == <<mainVars, searchVars, scoreVars, rankVars, pickVars>>

notScore == <<mainVars, searchVars, refreshVars, rankVars, pickVars>>

notRank == <<mainVars, searchVars, refreshVars, scoreVars, pickVars>>

notPick == <<mainVars, searchVars, refreshVars, scoreVars, rankVars>>

None == "None"

----------------------------------------------------------------------------
(* Bounds of the model.                                                    *)

MaxRuns == 2            \* runs of generate_and_post started in all

\* The worker processes sharing the GitHub file.
Procs == {"p1", "p2"}
Runs == 1..MaxRuns

\* The video ids the search provider knows.
VideoIds == {"a", "b"}

\* find_qualified_video(niche_key, max_pages=3)
max_pages == 3

\* Contents the used-videos file may have when the processes start.
StoredLists == {<<>>, <<"a">>}

----------------------------------------------------------------------------
(* Helpers.                                                                *)

Range(s) == {s[i] : i \in 1..Len(s)}

Count(x, s) == Cardinality({i \in 1..Len(s) : s[i] = x})

IsPrefix(s, t) == Len(s) <= Len(t) /\ SubSeq(t, 1, Len(s)) = s

----------------------------------------------------------------------------
(* main.py: GitHub persistence.                                            *)

\* The status of the GET of the contents API: 200 only when the file exists.
GetStatuses(st) == IF st.exists THEN {200, 500} ELSE {404}

\* load_used_videos: the decoded "videos" list on 200, else [].
load_used_videos(st, status) == IF status = 200 THEN st.videos ELSE <<>>

\* save_used_videos(videos): the GET of the sha succeeds or not, and then
\* building the payload evaluates base64.b64encode. main.py never imports
\* base64 at module level (the import in load_used_videos binds a local), so
\* line 126 raises NameError and the PUT of line 131 is never sent: the file
\* is left as it is and the exception goes to the caller.
save_used_videosWithPut(st, used) ==
    [store |-> [exists |-> TRUE, videos |-> used, sha |-> st.sha + 1], raised |-> None]

save_used_videos(st, used) == [store |-> st, raised |-> "NameError"]

----------------------------------------------------------------------------
(* main.py: one run of generate_and_post.                                  *)

\* The except clause of generate_and_post (lines 317-319): the run ends and
\* the error is recorded in LAST_STATUS.
Fail(r, err) ==
    /\ LAST_STATUS' = [LAST_STATUS EXCEPT ![proc[r]] =
                          [last_result |-> "error", last_error |-> err]]
    /\ pc' = [pc EXCEPT ![r] = "done"]
    /\ pass' = [pass EXCEPT ![r] = 0]
    /\ vid' = [vid EXCEPT ![r] = None]

\* The end of one pass of the for loop of find_qualified_video: sleep and
\* search again, or raise after max_pages passes.
EndPass(r) ==
    IF pass[r] < max_pages
    THEN /\ pc' = [pc EXCEPT ![r] = "search"]
              /\ vid' = [vid EXCEPT ![r] = None]
         /\ UNCHANGED <<LAST_STATUS, pass>>
    ELSE Fail(r, "No qualified videos found")

\* A scheduler job or a /run-now thread starts generate_and_post in process p.
StartRun(r, p) ==
    /\ pc[r] = "idle"
    /\ \A q \in Runs : q < r => pc[q] # "idle"
    /\ pc' = [pc EXCEPT ![r] = "search"]
    /\ proc' = [proc EXCEPT ![r] = p]
    /\ LAST_STATUS' = [LAST_STATUS EXCEPT ![p] =
                          [last_result |-> None, last_error |-> None]]
    /\ UNCHANGED <<store, loaded, USED_VIDEOS, posted, pass, vid>>
    /\ UNCHANGED notMain

\* search_yt_videos: one query; the provider answers or the call raises.
SearchOk(r) ==
    /\ pc[r] = "search"
    /\ pc' = [pc EXCEPT ![r] = "items"]
    /\ pass' = [pass EXCEPT ![r] = pass[r] + 1]
    /\ UNCHANGED <<store, loaded, USED_VIDEOS, LAST_STATUS, posted, proc, vid>>
    /\ UNCHANGED notMain

SearchRaises(r) ==
    /\ pc[r] = "search"
    /\ Fail(r, "HttpError: search")
    /\ UNCHANGED <<store, loaded, USED_VIDEOS, posted, proc>>
    /\ UNCHANGED notMain

\* The for loop over the candidates: the response has no further item.
ItemsExhausted(r) ==
    /\ pc[r] = "items"
    /\ EndPass(r)
    /\ UNCHANGED <<store, loaded, USED_VIDEOS, posted, proc>>
    /\ UNCHANGED notMain

\* The for loop over the candidates: the next item is v; it is skipped when
\* it is in USED_VIDEOS (line 287), else its details are fetched. A response
\* is any finite sequence of ids, served one item at a time.
Skips(r, v) == \E i \in 1..Len(USED_VIDEOS[proc[r]]) : USED_VIDEOS[proc[r]][i] = v

NextItem(r, v) ==
    /\ pc[r] = "items"
    /\ IF Skips(r, v)
       THEN UNCHANGED <<pc, vid>>
       ELSE /\ pc' = [pc EXCEPT ![r] = "details"]
            /\ vid' = [vid EXCEPT ![r] = v]
    /\ UNCHANGED <<store, loaded, USED_VIDEOS, LAST_STATUS, posted, proc, pass>>
    /\ UNCHANGED notMain

\* fetch_video_details raises (no items, or the request fails).
DetailsRaise(r) ==
    /\ pc[r] = "details"
    /\ Fail(r, "No video details found")
    /\ UNCHANGED <<store, loaded, USED_VIDEOS, posted, proc>>
    /\ UNCHANGED notMain

\* The transcript does not qualify: continue with the next item.
NotQualified(r) ==
    /\ pc[r] = "details"
    /\ pc' = [pc EXCEPT ![r] = "items"]
    /\ vid' = [vid EXCEPT ![r] = None]
    /\ UNCHANGED <<store, loaded, USED_VIDEOS, LAST_STATUS, posted, proc, pass>>
    /\ UNCHANGED notMain

\* The transcript qualifies: find_qualified_video returns vid (line 293).
\* Its local state (the pass) ends with the call.
Qualified(r) ==
    /\ pc[r] = "details"
    /\ pc' = [pc EXCEPT ![r] = "publish"]
    /\ pass' = [pass EXCEPT ![r] = 0]
    /\ UNCHANGED <<store, loaded, USED_VIDEOS, LAST_STATUS, posted, proc, vid>>
    /\ UNCHANGED notMain

\* generate_post_html or post_to_blogger raises.
PublishRaises(r) ==
    /\ pc[r] = "publish"
    /\ Fail(r, "publish failed")
    /\ UNCHANGED <<store, loaded, USED_VIDEOS, posted, proc>>
    /\ UNCHANGED notMain

\* post_to_blogger returns the post id (line 309).
Publish(r) ==
    /\ pc[r] = "publish"
    /\ posted' = [posted EXCEPT ![proc[r]] = Append(@, vid[r])]
    /\ pc' = [pc EXCEPT ![r] = "append"]
    /\ UNCHANGED <<store, loaded, USED_VIDEOS, LAST_STATUS, proc, pass, vid>>
    /\ UNCHANGED notMain

\* USED_VIDEOS.append(vid) (line 312).
MarkUsedReplacing(used, v) == <<v>>

MarkUsed(used, v) == Append(used, v)

AppendUsed(r) ==
    /\ pc[r] = "append"
    /\ USED_VIDEOS' = [USED_VIDEOS EXCEPT ![proc[r]] = MarkUsed(@, vid[r])]
    /\ pc' = [pc EXCEPT ![r] = "save"]
    /\ UNCHANGED <<store, loaded, LAST_STATUS, posted, proc, pass, vid>>
    /\ UNCHANGED notMain

\* save_used_videos(USED_VIDEOS) (line 313) and the end of the run: line 315
\* when the call returns, the except clause when it raises.
SaveUsed(r) ==
    /\ pc[r] = "save"
    /\ LET res == save_used_videos(store, USED_VIDEOS[proc[r]]) IN
         /\ store' = res.store
         /\ IF res.raised = None
            THEN /\ LAST_STATUS' = [LAST_STATUS EXCEPT ![proc[r]] =
                                      [last_result |-> "posted", last_error |-> None]]
                 /\ pc' = [pc EXCEPT ![r] = "done"]
                 /\ pass' = [pass EXCEPT ![r] = 0]
                              /\ vid' = [vid EXCEPT ![r] = None]
            ELSE Fail(r, res.raised)
    /\ UNCHANGED <<loaded, USED_VIDEOS, posted, proc>>
    /\ UNCHANGED notMain

----------------------------------------------------------------------------
(* youtube_video_selector.py: search_videos and rank_videos.               *)

MaxAvailable == 52      \* most items the search provider has for a keyword

\* The values of max_results tried (MAX_RESULTS = 10 is the default).
RequestSizes == {0, 1, 2, 10, 30, 51}

\* "API max per page is 50" (line 78)
API_MAX_PER_PAGE == 50

NoToken == <<>>

Min(a, b) == IF a <= b THEN a ELSE b

\* maxResults of the next request, given the n videos collected so far.
PageRequestWhole(mr, n) == Min(API_MAX_PER_PAGE, mr)

PageRequest(mr, n) == Min(API_MAX_PER_PAGE, mr - n)

\* The search provider. It has `available` items for the keyword, numbered in
\* its order 1..available. A request for at most m items from an offset is
\* answered with a page of 1..m of the items left (the provider chooses the
\* page size), or with an empty page when none is left; the response carries
\* a nextPageToken when items remain after the page.
Offset(token) == IF token = NoToken THEN 0 ELSE token[1]

ProviderPageSizes(avail, offset, m) ==
    IF avail > offset THEN 1..Min(m, avail - offset) ELSE {0}

ProviderItems(offset, k) == [i \in 1..k |-> offset + i]

ProviderToken(avail, offset, k) ==
    IF offset + k < avail THEN <<offset + k>> ELSE NoToken

\* One iteration of the while loop of search_videos (lines 71-102) whose
\* request is answered with a page of k items.
SearchPage(k) ==
    /\ spc = "search"
    /\ Len(videos) < max_results
    /\ k \in ProviderPageSizes(available, Offset(next_page_token),
                               PageRequest(max_results, Len(videos)))
    /\ search_requests' = search_requests + 1
    /\ IF k = 0
       THEN /\ spc' = "found"
            /\ UNCHANGED <<videos, next_page_token>>
       ELSE /\ videos' = videos \o ProviderItems(Offset(next_page_token), k)
            /\ next_page_token' = ProviderToken(available, Offset(next_page_token), k)
            /\ spc' = IF next_page_token' = NoToken THEN "found" ELSE "search"
    /\ UNCHANGED <<max_results, available, search_failed, detail_requests>>
    /\ UNCHANGED notSearch

\* The request raises HttpError: the loop is left (lines 84-86).
SearchPageRaises ==
    /\ spc = "search"
    /\ Len(videos) < max_results
    /\ search_requests' = search_requests + 1
    /\ search_failed' = TRUE
    /\ spc' = "found"
    /\ UNCHANGED <<max_results, available, videos, next_page_token, detail_requests>>
    /\ UNCHANGED notSearch

\* The while condition is false: search_videos returns (lines 104-107).
SearchReturns ==
    /\ spc = "search"
    /\ ~(Len(videos) < max_results)
    /\ spc' = "found"
    /\ UNCHANGED <<max_results, available, videos, next_page_token,
                   search_requests, search_failed, detail_requests>>
    /\ UNCHANGED notSearch

\* get_video_details(video_ids): one videos().list request whose id parameter
\* is ",".join(video_ids), all the ids (lines 113-117).
DetailRequests(video_ids) == <<video_ids>>

\* rank_videos(videos) (lines 150-155): nothing is requested for an empty
\* list, else the details of all the videos are requested.
RankVideos ==
    /\ spc = "found"
    /\ spc' = "ranked"
    /\ detail_requests' = IF videos = <<>> THEN detail_requests
                          ELSE detail_requests \o DetailRequests(videos)
    /\ UNCHANGED <<max_results, available, videos, next_page_token,
                   search_requests, search_failed>>
    /\ UNCHANGED notSearch

InitSearch ==
    /\ max_results \in RequestSizes
    /\ available \in 0..MaxAvailable
    /\ videos = <<>>
    /\ next_page_token = NoToken
    /\ spc = "search"
    /\ search_requests = 0
    /\ search_failed = FALSE
    /\ detail_requests = <<>>

\* No call of select_top_video is in progress.
IdleSearch ==
    /\ max_results = 0
    /\ available = 0
    /\ videos = <<>>
    /\ next_page_token = NoToken
    /\ spc = "idle"
    /\ search_requests = 0
    /\ search_failed = FALSE
    /\ detail_requests = <<>>

----------------------------------------------------------------------------
(* generate_youtube_json.py: one run of main().                            *)

NumVids == 52           \* video ids the providers know: 1..NumVids
MaxAge == 8             \* oldest cached record, in days before the run

Vids == 1..NumVids

\* The niches of NICHES_KEYWORDS processed (the first two of the six).
NICHES == <<"Weight Loss", "Pelvic Health">>

\* The number of keywords of a tier (3 / 5 / 3 in NICHES_KEYWORDS; the
\* provider answers any keyword with any answer, so only the number of
\* searches matters).
KeywordCount == [tier1 |-> 3, tier2 |-> 1, tier3 |-> 1]

\* Values of today.day tried: every combination of tiers refreshed.
Days == {1, 3, 7, 21}

REFRESH_FREQ == [tier1 |-> 1, tier2 |-> 3, tier3 |-> 7]

MAX_SEARCH_RESULTS == 25

MAX_VIDEOS_PER_CALL == 50

\* refresh_tiers of main() (lines 103-107)
RefreshTiers(day) ==
    <<"tier1">> \o (IF day % 3 = 0 THEN <<"tier2">> ELSE <<>>)
                \o (IF day % 7 = 0 THEN <<"tier3">> ELSE <<>>)

\* is_stale(cached_entry, refresh_days); every record main() writes has a
\* last_updated.
is_staleInclusive(cached_entry, refresh_days) ==
    now - cached_entry.last_updated >= refresh_days

is_stale(cached_entry, refresh_days) ==
    now - cached_entry.last_updated > refresh_days

\* "if not cached or is_stale(cached, REFRESH_FREQ[tier_name])" (line 130)
NeedsRefresh(v, tier_name) ==
    v \notin DOMAIN cache \/ is_stale(cache[v], REFRESH_FREQ[tier_name])

\* The search provider answers a keyword with at most MAX_SEARCH_RESULTS
\* ids: nothing, or one of the blocks of MAX_SEARCH_RESULTS consecutive ids.
Block(j) == ((j - 1) * MAX_SEARCH_RESULTS + 1)..Min(j * MAX_SEARCH_RESULTS, NumVids)

SearchAnswers ==
    {{}} \cup {Block(j) : j \in 1..((NumVids + MAX_SEARCH_RESULTS - 1) \div MAX_SEARCH_RESULTS)}

\* The detail provider's statistics of a video, and compute_score in tenths
\* (view_count * 0.7 + like_count * 0.3).
Statistics(v) == [viewCount |-> 10 * v, likeCount |-> v]

compute_score(video) == 7 * video.viewCount + 3 * video.likeCount

\* list(unique_video_ids): the set in some order (ascending or descending).
Ascending(S) == SelectSeq([i \in 1..NumVids |-> i], LAMBDA v : v \in S)

Descending(S) == SelectSeq([i \in 1..NumVids |-> NumVids + 1 - i], LAMBDA v : v \in S)

Orders(S) == {Ascending(S), Descending(S)}

\* The ids of the batch that starts at i: video_ids_list[i:i+MAX_VIDEOS_PER_CALL]
BatchIds(list, i) == SubSeq(list, i + 1, Min(i + MAX_VIDEOS_PER_CALL, Len(list)))

\* The detail provider returns the videos of the ids asked, or all of them
\* but the first (a video deleted or private).
DetailAnswers(ids) == {Range(ids), Range(ids) \ {ids[1]}}

CurrentNiche == NICHES[niche_i]

CurrentTier == refresh_tiers[tier_i]

\* The end of one iteration of "for keyword in keywords": the next keyword,
\* the next tier, or the batch loop over list(unique_video_ids) (line 134).
NextKeyword(uniq) ==
    IF kw_i < KeywordCount[CurrentTier]
    THEN /\ kw_i' = kw_i + 1
         /\ UNCHANGED <<tier_i, video_ids_list, batch_i, rpc>>
    ELSE IF tier_i < Len(refresh_tiers)
    THEN /\ tier_i' = tier_i + 1
         /\ kw_i' = 1
         /\ UNCHANGED <<video_ids_list, batch_i, rpc>>
    ELSE /\ video_ids_list' \in Orders(uniq)
         /\ batch_i' = 0
         /\ rpc' = IF uniq = {} THEN "cached" ELSE "details"
         /\ UNCHANGED <<tier_i, kw_i>>

\* youtube_search answers with items (lines 117-131).
RefreshSearch(items) ==
    /\ rpc = "search"
    /\ unique_video_ids' =
          unique_video_ids \cup {v \in items : NeedsRefresh(v, CurrentTier)}
    /\ NextKeyword(unique_video_ids')
    /\ UNCHANGED <<now, refresh_tiers, cache, cacheFile, output, niche_i, batch_log>>
    /\ UNCHANGED notRefresh

\* youtube_search raises: the keyword is skipped (lines 122-124).
RefreshSearchRaises ==
    /\ rpc = "search"
    /\ NextKeyword(unique_video_ids)
    /\ UNCHANGED <<now, refresh_tiers, cache, cacheFile, output, niche_i,
                   unique_video_ids, batch_log>>
    /\ UNCHANGED notRefresh

\* The end of one iteration of the batch loop (line 136).
NextBatch ==
    /\ batch_i' = batch_i + MAX_VIDEOS_PER_CALL
    /\ rpc' = IF batch_i' < Len(video_ids_list) THEN "details" ELSE "cached"

\* The record and the output entry main() writes for a returned video
\* (lines 145-153).
NewRecord(v) ==
    [score |-> compute_score(Statistics(v)), niche |-> CurrentNiche, last_updated |-> now]

OutputEntry(v, score) == [video_id |-> v, niche |-> CurrentNiche, score |-> score]

\* get_video_details answers the batch with the videos `returned`
\* (lines 137-154).
RecordBatch(ids, returned) ==
    LET got == SelectSeq(ids, LAMBDA v : v \in returned)
    IN /\ cache' = [v \in DOMAIN cache \cup returned |->
                       IF v \in returned THEN NewRecord(v) ELSE cache[v]]
       /\ output' = output \o
             [i \in 1..Len(got) |-> OutputEntry(got[i], compute_score(Statistics(got[i])))]
       /\ batch_log' = Append(batch_log,
             [niche |-> niche_i, ids |-> ids, ok |-> TRUE, items |-> returned])

DetailBatch ==
    /\ rpc = "details"
    /\ \E returned \in DetailAnswers(BatchIds(video_ids_list, batch_i)) :
          RecordBatch(BatchIds(video_ids_list, batch_i), returned)
    /\ NextBatch
    /\ UNCHANGED <<now, refresh_tiers, cacheFile, niche_i, tier_i, kw_i,
                   unique_video_ids, video_ids_list>>
    /\ UNCHANGED notRefresh

\* The except clause of the batch loop: sleep, then "continue" (lines 140-143).
BreakAfterError ==
    /\ batch_i' = batch_i
    /\ rpc' = "cached"

ContinueAfterError == NextBatch

\* get_video_details raises: the batch is skipped (lines 140-143).
DetailBatchRaises ==
    /\ rpc = "details"
    /\ batch_log' = Append(batch_log,
          [niche |-> niche_i, ids |-> BatchIds(video_ids_list, batch_i),
           ok |-> FALSE, items |-> {}])
    /\ ContinueAfterError
    /\ UNCHANGED <<now, refresh_tiers, cache, cacheFile, output, niche_i, tier_i, kw_i,
                   unique_video_ids, video_ids_list>>
    /\ UNCHANGED notRefresh

\* "Append cached videos that don't need refreshing" (lines 156-159), and the
\* next iteration of the loop over the niches.
AppendCached ==
    /\ rpc = "cached"
    /\ LET keep == Ascending({v \in DOMAIN cache :
                       cache[v].niche = CurrentNiche /\ v \notin unique_video_ids})
       IN output' = output \o
             [i \in 1..Len(keep) |-> OutputEntry(keep[i], cache[keep[i]].score)]
    /\ niche_i' = niche_i + 1
    /\ tier_i' = 1
    /\ kw_i' = 1
    /\ unique_video_ids' = {}
    /\ video_ids_list' = <<>>
    /\ batch_i' = 0
    /\ rpc' = IF niche_i < Len(NICHES) THEN "search" ELSE "save"
    /\ UNCHANGED <<now, refresh_tiers, cache, cacheFile, batch_log>>
    /\ UNCHANGED notRefresh

\* save_cache(cache) and the dump of output (lines 161-166).
SaveCache ==
    /\ rpc = "save"
    /\ cacheFile' = cache
    /\ rpc' = "done"
    /\ UNCHANGED <<now, refresh_tiers, cache, output, niche_i, tier_i, kw_i,
                   unique_video_ids, video_ids_list, batch_i, batch_log>>
    /\ UNCHANGED notRefresh

\* The cache files a run may start with: none, or records main() wrote
\* earlier for the first and the last video.
OldRecord(age, niche) == [score |-> 0, niche |-> niche, last_updated |-> MaxAge - age]

EmptyCache == [v \in {} |-> OldRecord(0, NICHES[1])]

InitialCaches ==
    {EmptyCache} \cup
    {[v \in {1, NumVids} |-> OldRecord(IF v = 1 THEN a ELSE MaxAge, NICHES[n])] :
        a \in 0..MaxAge, n \in {1}} \cup
    {[v \in {1, NumVids} |-> OldRecord(MaxAge, NICHES[n])] : n \in 2..Len(NICHES)}

InitRefresh ==
    /\ now = MaxAge
    /\ refresh_tiers \in {RefreshTiers(day) : day \in Days}
    /\ cacheFile \in InitialCaches
    /\ cache = cacheFile
    /\ output = <<>>
    /\ niche_i = 1
    /\ tier_i = 1
    /\ kw_i = 1
    /\ unique_video_ids = {}
    /\ video_ids_list = <<>>
    /\ batch_i = 0
    /\ batch_log = <<>>
    /\ rpc = "search"

\* No run of main() of generate_youtube_json.py is in progress.
IdleRefresh ==
    /\ now = 0
    /\ refresh_tiers = <<>>
    /\ cacheFile = EmptyCache
    /\ cache = cacheFile
    /\ output = <<>>
    /\ niche_i = 1
    /\ tier_i = 1
    /\ kw_i = 1
    /\ unique_video_ids = {}
    /\ video_ids_list = <<>>
    /\ batch_i = 0
    /\ batch_log = <<>>
    /\ rpc = "idle"

----------------------------------------------------------------------------
(* Rational numbers. The scores of youtube_video_selector.py are Python    *)
(* floats; the model computes them exactly, as fractions [n, d] in lowest   *)
(* terms with d > 0 (the rounding of the floats, of the order of 1e-16, is  *)
(* not modelled).                                                           *)

Abs(x) == IF x < 0 THEN -x ELSE x

RECURSIVE GCD(_, _)
GCD(a, b) == IF b = 0 THEN a ELSE GCD(b, a % b)

Rat(n, d) ==
    LET s == IF d < 0 THEN -1 ELSE 1
        g == GCD(Abs(n), Abs(d))
    IN [n |-> (s * n) \div g, d |-> (s * d) \div g]

R(k) == [n |-> k, d |-> 1]

RAdd(a, b) == Rat(a.n * b.d + b.n * a.d, a.d * b.d)

RSub(a, b) == Rat(a.n * b.d - b.n * a.d, a.d * b.d)

RMul(a, b) == Rat(a.n * b.n, a.d * b.d)

\* a / b for b # 0 (Python raises ZeroDivisionError for b = 0)
RDiv(a, b) == Rat(a.n * b.d, a.d * b.n)

RLt(a, b) == a.n * b.d < b.n * a.d

RLe(a, b) == a.n * b.d <= b.n * a.d

RMax(a, b) == IF RLt(a, b) THEN b ELSE a

RAbs(a) == [n |-> Abs(a.n), d |-> a.d]

----------------------------------------------------------------------------
(* youtube_video_selector.py: video_score and the filter of rank_videos.   *)

\* The arguments tried: durations and average view durations in minutes,
\* ages in weeks (delta_days / 7).
ScoreDurations ==
    {R(0), R(8), R(9), R(12), Rat(29, 2), R(17), Rat(35, 2), R(20)}

ScoreViewDurations ==
    {R(0), R(5), R(6), Rat(42, 5), R(9), R(12), R(17), R(40)}

ScoreAges ==
    {R(0), Rat(41, 7), R(6), R(20), R(52), R(78), Rat(547, 7), R(100)}

\* AgeScore = 0 if VA_weeks < 6 else 1 if VA_weeks <= 78 else 0.5 (line 60)
AgeScoreFlat(va_weeks) ==
    IF RLt(va_weeks, R(6)) THEN R(0) ELSE R(1)

AgeScore(va_weeks) ==
    IF RLt(va_weeks, R(6)) THEN R(0)
    ELSE IF RLe(va_weeks, R(78)) THEN R(1) ELSE Rat(1, 2)

\* LengthScore (line 59)
LengthScore(vl) ==
    IF RLt(vl, R(9)) \/ RLt(R(17), vl) THEN R(0)
    ELSE RMax(R(0), RSub(R(1), RMul(RDiv(RAbs(RSub(vl, R(12))), R(5)), Rat(3, 10))))

\* APV = (AVD / VL) * 100 (line 57), for VL # 0
APV(avd, vl) == RMul(RDiv(avd, vl), R(100))

\* EngagementScore = max(0, (APV - 60) / 40) (line 58)
EngagementScore(apv) == RMax(R(0), RDiv(RSub(apv, R(60)), R(40)))

\* video_score(AVD, VL, VA_weeks), for VL # 0 (line 61)
video_score(avd, vl, va_weeks) ==
    RAdd(RAdd(RMul(Rat(1, 2), EngagementScore(APV(avd, vl))),
              RMul(Rat(3, 10), LengthScore(vl))),
         RMul(Rat(2, 10), AgeScore(va_weeks)))

\* The condition under which rank_videos keeps a candidate (line 164):
\* score >= 0.8 and 6 <= d["VA_weeks"] <= 78 and 9 <= d["VL"] <= 17
KeepsOnScoreAlone(score, vl, va_weeks) == RLe(Rat(8, 10), score)

Keeps(score, vl, va_weeks) ==
    /\ RLe(Rat(8, 10), score)
    /\ RLe(R(6), va_weeks) /\ RLe(va_weeks, R(78))
    /\ RLe(R(9), vl) /\ RLe(vl, R(17))

\* video_score returns (lines 57-61).
VideoScore ==
    /\ scpc = "call"
    /\ VL.n # 0
    /\ final_score' = video_score(AVD, VL, VA_weeks)
    /\ scpc' = "scored"
    /\ UNCHANGED <<AVD, VL, VA_weeks, kept>>
    /\ UNCHANGED notScore

\* VL is 0: the division of line 57 raises ZeroDivisionError.
VideoScoreRaises ==
    /\ scpc = "call"
    /\ VL.n = 0
    /\ scpc' = "raised"
    /\ UNCHANGED <<AVD, VL, VA_weeks, final_score, kept>>
    /\ UNCHANGED notScore

\* The filter of rank_videos applied to the scored candidate (line 164).
FilterScored ==
    /\ scpc = "scored"
    /\ kept' = Keeps(final_score, VL, VA_weeks)
    /\ scpc' = "filtered"
    /\ UNCHANGED <<AVD, VL, VA_weeks, final_score>>
    /\ UNCHANGED notScore

InitScore ==
    /\ AVD \in ScoreViewDurations
    /\ VL \in ScoreDurations
    /\ VA_weeks \in ScoreAges
    /\ final_score = R(0)
    /\ kept = FALSE
    /\ scpc = "call"

\* No candidate is being scored.
IdleScore ==
    /\ AVD = R(0)
    /\ VL = R(0)
    /\ VA_weeks = R(0)
    /\ final_score = R(0)
    /\ kept = FALSE
    /\ scpc = "idle"

----------------------------------------------------------------------------
(* youtube_video_selector.py: get_video_details, rank_videos and           *)
(* select_top_video.                                                        *)

\* A text is the sequence of its characters.
Digits == [c \in {"0", "1", "2", "3", "4", "5", "6", "7", "8", "9"} |->
             CASE c = "0" -> 0 [] c = "1" -> 1 [] c = "2" -> 2 [] c = "3" -> 3
               [] c = "4" -> 4 [] c = "5" -> 5 [] c = "6" -> 6 [] c = "7" -> 7
               [] c = "8" -> 8 [] c = "9" -> 9]

\* A JSON null in the place of a text.
NullValue == <<"null">>

\* The values of contentDetails.duration tried: PT12M, PT9M30S, PT1H,
\* PT14M5S, PT0S, P0D, P1DT2H, PT, PT12, PT5M10X, 12:30, the empty text and
\* null.
DurationTexts ==
    { <<"P", "T", "1", "2", "M">>,
      <<"P", "T", "9", "M", "3", "0", "S">>,
      <<"P", "T", "1", "H">>,
      <<"P", "T", "1", "4", "M", "5", "S">>,
      <<"P", "T", "0", "S">>,
      <<"P", "0", "D">>,
      <<"P", "1", "D", "T", "2", "H">>,
      <<"P", "T">>,
      <<"P", "T", "1", "2">>,
      <<"P", "T", "5", "M", "1", "0", "X">>,
      <<"1", "2", ":", "3", "0">>,
      <<>>,
      NullValue }

\* The optional value of a Python function: None, or a value.
Unknown == <<>>

Known(x) == <<x>>

\* The end of the run of digits of t that starts at i: \d* from i.
RECURSIVE DigitsEnd(_, _)
DigitsEnd(t, i) ==
    IF i <= Len(t) /\ t[i] \in DOMAIN Digits THEN DigitsEnd(t, i + 1) ELSE i

\* int of a text of digits
RECURSIVE ToInt(_)
ToInt(t) ==
    IF t = <<>> THEN 0
    ELSE 10 * ToInt(SubSeq(t, 1, Len(t) - 1)) + Digits[t[Len(t)]]

\* (?:(\d+)X)? at position i of t for the letter X: the group takes part in
\* the match when a non-empty run of digits is followed by the letter.
OptionalGroup(t, i, letter) ==
    LET e == DigitsEnd(t, i)
    IN IF e > i /\ e <= Len(t) /\ t[e] = letter
       THEN [present |-> TRUE, value |-> ToInt(SubSeq(t, i, e - 1)), next |-> e + 1]
       ELSE [present |-> FALSE, value |-> 0, next |-> i]

\* re.match(r'PT(?:(\d+)H)?(?:(\d+)M)?(?:(\d+)S)?', duration): a match of a
\* prefix of the text; matched is FALSE for None.
DurationMatch(t) ==
    IF Len(t) >= 2 /\ t[1] = "P" /\ t[2] = "T"
    THEN LET h == OptionalGroup(t, 3, "H")
             m == OptionalGroup(t, h.next, "M")
             sec == OptionalGroup(t, m.next, "S")
         IN [matched |-> TRUE, h |-> h, m |-> m, s |-> sec, end |-> sec.next]
    ELSE [matched |-> FALSE,
          h |-> [present |-> FALSE, value |-> 0, next |-> 1],
          m |-> [present |-> FALSE, value |-> 0, next |-> 1],
          s |-> [present |-> FALSE, value |-> 0, next |-> 1], end |-> 1]

\* iso8601_duration_to_minutes(duration) (lines 29-42): hours, minutes and
\* seconds start at 0 and are set only when the text matches; re.match of a
\* value that is not a text raises TypeError, and the except returns None.
iso8601_duration_to_minutes(duration) ==
    IF duration = NullValue THEN Unknown
    ELSE LET match == DurationMatch(duration)
             hours == IF match.matched THEN match.h.value ELSE 0
             minutes == IF match.matched THEN match.m.value ELSE 0
             seconds == IF match.matched THEN match.s.value ELSE 0
         IN Known(RAdd(R(hours * 60 + minutes), Rat(seconds, 60)))

\* The values of snippet.publishedAt tried: a timestamp of the format
\* %Y-%m-%dT%H:%M:%SZ published days_ago days before now, or a text
\* strptime rejects (such as a timestamp with fractional seconds).
PublishedValues ==
    [parses : {TRUE}, days_ago : {14, 140, 700}] \cup [parses : {FALSE}, days_ago : {140}]

\* compute_video_age_weeks(published_at) (lines 44-50)
compute_video_age_weeks(published_at) ==
    IF published_at.parses THEN Rat(published_at.days_ago, 7) ELSE R(52)

\* The ids of the candidates, in the order of the search.
CandidateIds == <<"a", "b">>

\* The item the detail provider has for the i-th candidate.
ProviderVideos(i) ==
    [video_id : {CandidateIds[i]}, duration : DurationTexts,
     published_at : PublishedValues, view_count : {100}]

\* AVD = VL * 0.7 (line 129)
ProxyAVD(vl) == RMul(vl, Rat(7, 10))

\* The entry of details for an item whose duration gave vl (lines 129-144).
DetailsOf(item, vl) ==
    [VL |-> vl, AVD |-> ProxyAVD(vl),
     VA_weeks |-> compute_video_age_weeks(item.published_at),
     view_count |-> item.view_count, like_count |-> 0]

NoDetails == [v \in {} |-> DetailsOf([published_at |-> [parses |-> FALSE, days_ago |-> 0],
                                      view_count |-> 0], R(0))]

\* get_video_details(video_ids) when the request succeeds (lines 122-145):
\* the provider returns the items of the ids in ids (it leaves out a video
\* that is deleted, private or restricted), and an item whose duration is
\* None is skipped.
get_video_details(items, ids) ==
    LET scorable == {i \in 1..Len(items) :
                        /\ items[i].video_id \in ids
                        /\ iso8601_duration_to_minutes(items[i].duration) # Unknown}
        at(v) == CHOOSE i \in scorable : items[i].video_id = v
    IN [v \in {items[i].video_id : i \in scorable} |->
           DetailsOf(items[at(v)], iso8601_duration_to_minutes(items[at(v)].duration)[1])]

\* rank_videos calls get_video_details on all the candidates (lines 154-155)
\* and the request succeeds.
GetVideoDetails(ids) ==
    /\ rkpc = "details"
    /\ ids \subseteq {candidates[i].video_id : i \in 1..Len(candidates)}
    /\ returned_ids' = ids
    /\ details' = get_video_details(candidates, ids)
    /\ rkpc' = "rank"
    /\ UNCHANGED <<candidates, rank_i, filtered, top_video>>
    /\ UNCHANGED notRank

\* The request raises HttpError: get_video_details returns {} (lines 118-120).
GetVideoDetailsRaises ==
    /\ rkpc = "details"
    /\ details' = NoDetails
    /\ rkpc' = "rank"
    /\ UNCHANGED <<candidates, returned_ids, rank_i, filtered, top_video>>
    /\ UNCHANGED notRank

\* The loop of rank_videos (lines 158-173): the next candidate is not in
\* details and is skipped.
RankSkips ==
    /\ rkpc = "rank"
    /\ rank_i < Len(candidates)
    /\ candidates[rank_i + 1].video_id \notin DOMAIN details
    /\ rank_i' = rank_i + 1
    /\ UNCHANGED <<candidates, returned_ids, details, filtered, top_video, rkpc>>
    /\ UNCHANGED notRank

\* The next candidate is scored, and appended to filtered when the filter
\* keeps it.
RankScores ==
    /\ rkpc = "rank"
    /\ rank_i < Len(candidates)
    /\ candidates[rank_i + 1].video_id \in DOMAIN details
    /\ LET v == candidates[rank_i + 1].video_id
           d == details[v]
       IN /\ d.VL.n # 0
          /\ LET score == video_score(d.AVD, d.VL, d.VA_weeks)
             IN filtered' =
                   IF Keeps(score, d.VL, d.VA_weeks)
                   THEN Append(filtered, [video_id |-> v, final_score |-> score,
                                          view_count |-> d.view_count])
                   ELSE filtered
    /\ rank_i' = rank_i + 1
    /\ UNCHANGED <<candidates, returned_ids, details, top_video, rkpc>>
    /\ UNCHANGED notRank

\* The next candidate has VL = 0: video_score raises ZeroDivisionError
\* (line 57), which nothing catches in rank_videos or select_top_video.
RankRaises ==
    /\ rkpc = "rank"
    /\ rank_i < Len(candidates)
    /\ candidates[rank_i + 1].video_id \in DOMAIN details
    /\ details[candidates[rank_i + 1].video_id].VL.n = 0
    /\ rkpc' = "raised"
    /\ UNCHANGED <<candidates, returned_ids, details, rank_i, filtered, top_video>>
    /\ UNCHANGED notRank

\* sorted(filtered, key=final_score, reverse=True) (line 175): a stable sort,
\* entries of equal score keep the order they have in filtered.
RECURSIVE SortedByScore(_)
SortedByScore(list) ==
    IF list = <<>> THEN <<>>
    ELSE LET best == CHOOSE i \in 1..Len(list) :
                        /\ \A j \in 1..Len(list) :
                              RLe(list[j].final_score, list[i].final_score)
                        /\ \A j \in 1..(i - 1) :
                              RLt(list[j].final_score, list[i].final_score)
         IN <<list[best]>> \o
            SortedByScore(SubSeq(list, 1, best - 1) \o SubSeq(list, best + 1, Len(list)))

\* rank_videos returns the sorted list and select_top_video its first entry,
\* or None (lines 175 and 181-183).
SelectTop ==
    /\ rkpc = "rank"
    /\ rank_i = Len(candidates)
    /\ top_video' = IF SortedByScore(filtered) = <<>> THEN Unknown
                    ELSE Known(SortedByScore(filtered)[1].video_id)
    /\ rkpc' = "done"
    /\ UNCHANGED <<candidates, returned_ids, details, rank_i, filtered>>
    /\ UNCHANGED notRank

\* search_videos returned one video or more (rank_videos returns [] at once
\* for none, line 151).
InitRank ==
    /\ \E n \in 1..Len(CandidateIds) :
          candidates \in [1..n -> UNION {ProviderVideos(i) : i \in 1..n}]
    /\ \A i \in 1..Len(candidates) : candidates[i].video_id = CandidateIds[i]
    /\ returned_ids = {}
    /\ details = NoDetails
    /\ rank_i = 0
    /\ filtered = <<>>
    /\ top_video = Unknown
    /\ rkpc = "details"

\* No call of rank_videos is in progress.
IdleRank ==
    /\ candidates = <<>>
    /\ returned_ids = {}
    /\ details = NoDetails
    /\ rank_i = 0
    /\ filtered = <<>>
    /\ top_video = Unknown
    /\ rkpc = "idle"

----------------------------------------------------------------------------
(* main.py: one pass of find_qualified_video (lines 285-293) over the      *)
(* candidates of one search, with no other run changing USED_VIDEOS.        *)

\* The videos the search may return.
PickIds == {"a", "b", "c"}

\* The responses of search_yt_videos: the videos of a set, in any order.
Responses ==
    {q \in UNION {[1..n -> PickIds] : n \in 0..Cardinality(PickIds)} :
        \A i, j \in 1..Len(q) : i # j => q[i] # q[j]}

\* "if vid in USED_VIDEOS: continue" (lines 287-288)
PickSkipsUsed ==
    /\ ppc = "loop"
    /\ pick_i < Len(response)
    /\ response[pick_i + 1] \in history
    /\ pick_i' = pick_i + 1
    /\ UNCHANGED <<response, history, transcripts, picked, ppc>>
    /\ UNCHANGED notPick

\* "if not qualify_transcript(transcript, min_blog_len): continue"
\* (lines 289-292)
PickNotQualified ==
    /\ ppc = "loop"
    /\ pick_i < Len(response)
    /\ response[pick_i + 1] \notin history
    /\ response[pick_i + 1] \notin transcripts
    /\ pick_i' = pick_i + 1
    /\ UNCHANGED <<response, history, transcripts, picked, ppc>>
    /\ UNCHANGED notPick

\* The candidate is not used and its transcript qualifies: it is returned
\* (line 293).
PickReturns ==
    /\ ppc = "loop"
    /\ pick_i < Len(response)
    /\ response[pick_i + 1] \notin history
    /\ response[pick_i + 1] \in transcripts
    /\ picked' = Known(response[pick_i + 1])
    /\ ppc' = "returned"
    /\ UNCHANGED <<response, history, transcripts, pick_i>>
    /\ UNCHANGED notPick

\* The loop over the candidates ends: the pass returned nothing (line 294).
PickExhausted ==
    /\ ppc = "loop"
    /\ pick_i = Len(response)
    /\ ppc' = "exhausted"
    /\ UNCHANGED <<response, history, transcripts, pick_i, picked>>
    /\ UNCHANGED notPick

InitPick ==
    /\ response \in Responses
    /\ history \in SUBSET PickIds
    /\ transcripts \in SUBSET PickIds
    /\ pick_i = 0
    /\ picked = Unknown
    /\ ppc = "loop"

\* No pass of find_qualified_video is modelled.
IdlePick ==
    /\ response = <<>>
    /\ history = {}
    /\ transcripts = {}
    /\ pick_i = 0
    /\ picked = Unknown
    /\ ppc = "idle"

----------------------------------------------------------------------------
(* main.py: the specification.                                             *)

InitMain ==
    /\ store \in [exists : {FALSE}, videos : {<<>>}, sha : {0}]
                 \cup [exists : {TRUE}, videos : StoredLists, sha : {1}]
    /\ loaded \in [Procs -> {load_used_videos(store, s) : s \in GetStatuses(store)}]
    /\ USED_VIDEOS = loaded
    /\ LAST_STATUS = [p \in Procs |-> [last_result |-> None, last_error |-> None]]
    /\ posted = [p \in Procs |-> <<>>]
    /\ pc = [r \in Runs |-> "idle"]
    /\ proc = [r \in Runs |-> "p1"]
    /\ pass = [r \in Runs |-> 0]
    /\ vid = [r \in Runs |-> None]

IdleMain ==
    /\ store = [exists |-> FALSE, videos |-> <<>>, sha |-> 0]
    /\ loaded = [p \in Procs |-> <<>>]
    /\ USED_VIDEOS = loaded
    /\ LAST_STATUS = [p \in Procs |-> [last_result |-> None, last_error |-> None]]
    /\ posted = [p \in Procs |-> <<>>]
    /\ pc = [r \in Runs |-> "off"]
    /\ proc = [r \in Runs |-> "p1"]
    /\ pass = [r \in Runs |-> 0]
    /\ vid = [r \in Runs |-> None]

Init == InitMain /\ IdleSearch /\ IdleRefresh /\ IdleScore /\ IdleRank /\ IdlePick

Next ==
    \/ \E r \in Runs, p \in Procs : StartRun(r, p)
    \/ \E r \in Runs : SearchOk(r)
    \/ \E r \in Runs : SearchRaises(r)
    \/ \E r \in Runs : ItemsExhausted(r)
    \/ \E r \in Runs, v \in VideoIds : NextItem(r, v)
    \/ \E r \in Runs : DetailsRaise(r)
    \/ \E r \in Runs : NotQualified(r)
    \/ \E r \in Runs : Qualified(r)
    \/ \E r \in Runs : PublishRaises(r)
    \/ \E r \in Runs : Publish(r)
    \/ \E r \in Runs : AppendUsed(r)
    \/ \E r \in Runs : SaveUsed(r)

Spec == Init /\ [][Next]_vars

----------------------------------------------------------------------------
(* youtube_video_selector.py: the specification.                           *)

InitSelector ==
    IdleMain /\ InitSearch /\ IdleRefresh /\ IdleScore /\ IdleRank /\ IdlePick

NextSelector ==
    \/ \E k \in 0..API_MAX_PER_PAGE : SearchPage(k)
    \/ SearchPageRaises
    \/ SearchReturns
    \/ RankVideos

SpecSearch == InitSelector /\ [][NextSelector]_vars

----------------------------------------------------------------------------
(* generate_youtube_json.py: the specification.                            *)

InitGenerate ==
    IdleMain /\ IdleSearch /\ InitRefresh /\ IdleScore /\ IdleRank /\ IdlePick

NextGenerate ==
    \/ \E items \in SearchAnswers : RefreshSearch(items)
    \/ RefreshSearchRaises
    \/ DetailBatch
    \/ DetailBatchRaises
    \/ AppendCached
    \/ SaveCache

SpecRefresh == InitGenerate /\ [][NextGenerate]_vars

----------------------------------------------------------------------------
(* youtube_video_selector.py, video_score: the specification.              *)

InitScoring ==
    IdleMain /\ IdleSearch /\ IdleRefresh /\ InitScore /\ IdleRank /\ IdlePick

NextScoring ==
    \/ VideoScore
    \/ VideoScoreRaises
    \/ FilterScored

SpecScore == InitScoring /\ [][NextScoring]_vars

----------------------------------------------------------------------------
(* youtube_video_selector.py, rank_videos: the specification.              *)

InitRanking ==
    IdleMain /\ IdleSearch /\ IdleRefresh /\ IdleScore /\ InitRank /\ IdlePick

NextRanking ==
    \/ \E ids \in SUBSET Range(CandidateIds) : GetVideoDetails(ids)
    \/ GetVideoDetailsRaises
    \/ RankSkips
    \/ RankScores
    \/ RankRaises
    \/ SelectTop

SpecRank == InitRanking /\ [][NextRanking]_vars

----------------------------------------------------------------------------
(* main.py, one pass of find_qualified_video: the specification.           *)

InitPicking ==
    IdleMain /\ IdleSearch /\ IdleRefresh /\ IdleScore /\ IdleRank /\ InitPick

NextPicking ==
    \/ PickSkipsUsed
    \/ PickNotQualified
    \/ PickReturns
    \/ PickExhausted

SpecPick == InitPicking /\ [][NextPicking]_vars

----------------------------------------------------------------------------
(* Claims about main.py, checked under Spec.                               *)

InHistory(p, v) == \E i \in 1..Len(USED_VIDEOS[p]) : USED_VIDEOS[p][i] = v

\* C1: whenever find_qualified_video returns a video (line 293), that id is
\* not in USED_VIDEOS of the run's process at that moment.
C1_ReturnedNotUsed ==
    [][\A r \in Runs :
          (pc[r] = "details" /\ pc'[r] = "publish") => ~InHistory(proc[r], vid[r])]_vars

\* C2: no id occurs twice in the in-memory history of a process, nor in the
\* content of the used-videos file.
C2_NoDuplicates ==
    /\ \A p \in Procs : \A v \in VideoIds : Count(v, USED_VIDEOS[p]) <= 1
    /\ \A v \in VideoIds : Count(v, store.videos) <= 1

\* C3: once two runs of different processes have both gone through
\* save_used_videos and no run is in progress, every id a process marked used
\* is in the used-videos file.
Saved(p) ==
    \/ LAST_STATUS[p].last_result = "posted"
    \/ LAST_STATUS[p].last_error = "NameError"

C3_NoLostUpdate ==
    ( /\ \A r \in Runs : pc[r] = "done"
      /\ \E r1, r2 \in Runs :
            proc[r1] # proc[r2] /\ Saved(proc[r1]) /\ Saved(proc[r2]) )
    => \A p \in Procs : \A i \in 1..Len(USED_VIDEOS[p]) :
          i > Len(loaded[p]) => USED_VIDEOS[p][i] \in Range(store.videos)

\* C4: the history of a process is what it loaded followed by one entry for
\* each post the process published (the published id), a run between its post
\* and its append aside; nothing else is added and nothing is removed.
Appending(p, v) == {r \in Runs : proc[r] = p /\ pc[r] = "append" /\ vid[r] = v}

C4_AppendOncePerPost ==
    \A p \in Procs :
        /\ IsPrefix(loaded[p], USED_VIDEOS[p])
        /\ \A v \in VideoIds :
              Count(v, USED_VIDEOS[p]) - Count(v, loaded[p]) + Cardinality(Appending(p, v))
                 = Count(v, posted[p])

\* C4 witness: a process that loaded a non-empty history has published one
\* post and appended its id, and a run has ended without publishing.
C4_Witness ==
    \E p \in Procs :
        /\ Len(loaded[p]) = 1
        /\ Len(posted[p]) = 1
        /\ USED_VIDEOS[p] = loaded[p] \o posted[p]
        /\ \E q \in Procs : LAST_STATUS[q].last_error = "No qualified videos found"

\* C6: a search query that raises never ends the run.
C6_SearchErrorNeverAborts ==
    \A p \in Procs : LAST_STATUS[p].last_error # "HttpError: search"

\* C7: find_qualified_video makes at most max_pages passes, and when they
\* are exhausted the run does not end in the except clause with the
\* RuntimeError "No qualified videos found".
C7_NotFoundIsReturned ==
    /\ \A r \in Runs : pass[r] <= max_pages
    /\ \A p \in Procs :
          ~(LAST_STATUS[p].last_result = "error"
              /\ LAST_STATUS[p].last_error = "No qualified videos found")

\* C11: a video id for which the detail provider returns no item never ends
\* the run: no run ends in the except clause with the ValueError
\* "No video details found" of fetch_video_details.
C11_MissingDetailsNeverAbort ==
    \A p \in Procs :
        ~(LAST_STATUS[p].last_result = "error"
            /\ LAST_STATUS[p].last_error = "No video details found")

\* C18: a run that published a post never ends in the except clause because
\* of save_used_videos, and every id a process published is in its in-memory
\* history once the run has appended it.
C18_FailedWriteNotFatal ==
    \A p \in Procs :
        /\ ~(LAST_STATUS[p].last_result = "error"
              /\ LAST_STATUS[p].last_error = "NameError")
        /\ (\A v \in VideoIds : Appending(p, v) = {})
              => Range(posted[p]) \subseteq Range(USED_VIDEOS[p])

\* C21: no step removes an id from the used-videos file.
C21_PersistedNeverRemoved ==
    [][Range(store.videos) \subseteq Range(store'.videos)]_vars

\* C21 witness: a process whose load_used_videos failed on a file that holds
\* an id started with an empty history, published another video and went
\* through save_used_videos; the id is still in the file.
C21_Witness ==
    \E p \in Procs :
        /\ store.videos # <<>>
        /\ loaded[p] = <<>>
        /\ USED_VIDEOS[p] # <<>>
        /\ Range(USED_VIDEOS[p]) \cap Range(store.videos) = {}
        /\ LAST_STATUS[p].last_error = "NameError"

\* C20: no process publishes the same video id twice.
C20_NoDoublePublish ==
    \A p \in Procs : \A v \in VideoIds : Count(v, posted[p]) <= 1

----------------------------------------------------------------------------
(* Claims about youtube_video_selector.py, checked under SpecSearch.       *)

\* C5: search_videos never holds more than max_results videos, sends at most
\* one request more than it has videos (so it terminates), and when no
\* request failed it returns the first min(max_results, available) items of
\* the provider, in the provider's order.
C5_SearchReturnsMin ==
    /\ Len(videos) <= max_results
    /\ search_requests <= Len(videos) + 1
    /\ (spc \in {"found", "ranked"} /\ ~search_failed)
          => videos = [i \in 1..Min(max_results, available) |-> i]

\* C5 witness: max_results = 30 against a provider that served 20 items in
\* two pages of 10 returns 20 videos.
C5_Witness ==
    /\ spc = "found"
    /\ ~search_failed
    /\ max_results = 30
    /\ available = 20
    /\ search_requests = 2
    /\ videos = [i \in 1..20 |-> i]

\* C9: every request sent to the detail provider carries at most 50 ids, and
\* every video to be fetched is in exactly one request.
C9_DetailBatches ==
    /\ \A i \in 1..Len(detail_requests) : Len(detail_requests[i]) <= 50
    /\ spc = "ranked" =>
          \A j \in 1..Len(videos) :
              Cardinality({i \in 1..Len(detail_requests) :
                              videos[j] \in Range(detail_requests[i])}) = 1

----------------------------------------------------------------------------
(* Claims about generate_youtube_json.py, checked under SpecRefresh.       *)

Running == rpc \in {"search", "details", "cached", "save"}

\* The record of v is what the cache file held when the run started.
SameAsFile(v) ==
    /\ v \in DOMAIN cache <=> v \in DOMAIN cacheFile
    /\ v \in DOMAIN cache => cache[v] = cacheFile[v]

\* C8: an item is put among the ids to fetch only if it has no record or
\* now - last_updated exceeds (strictly) the refresh interval of the tier
\* whose keyword found it, a record is written only for an id to fetch, and a
\* record that is fresh for every tier refreshed today is the same as in the
\* cache file throughout the run.
C8_FreshUnchanged ==
    Running =>
        \A v \in DOMAIN cacheFile :
            (\A i \in 1..Len(refresh_tiers) :
                now - cacheFile[v].last_updated <= REFRESH_FREQ[refresh_tiers[i]])
            => SameAsFile(v)

C8_OnlyStaleRefreshed ==
    /\ []C8_FreshUnchanged
    /\ [][ /\ \A v \in unique_video_ids' \ unique_video_ids :
                /\ rpc = "search"
                /\ \/ v \notin DOMAIN cache
                   \/ now - cache[v].last_updated > REFRESH_FREQ[refresh_tiers[tier_i]]
           /\ \A v \in DOMAIN cache' :
                (v \notin DOMAIN cache \/ cache'[v] # cache[v]) => v \in unique_video_ids
         ]_vars

\* C8 witness: the searches found the first block of ids and the last one;
\* video 1, whose record is exactly one day old, was not fetched with the
\* rest of its block and keeps its record, and the stale record of the last
\* video was rewritten.
C8_Witness ==
    /\ rpc = "save"
    /\ 1 \in DOMAIN cacheFile
    /\ now - cacheFile[1].last_updated = 1
    /\ SameAsFile(1)
    /\ \E i \in 1..Len(batch_log) :
          2 \in Range(batch_log[i].ids) /\ 1 \notin Range(batch_log[i].ids)
    /\ cache[NumVids] # cacheFile[NumVids]

\* The detail requests of the niche being processed.
PassLog == {i \in 1..Len(batch_log) : batch_log[i].niche = niche_i}

Recorded(v, entries) ==
    /\ v \in DOMAIN cache
    /\ cache[v] = [score |-> 7 * (10 * v) + 3 * v, niche |-> NICHES[niche_i],
                   last_updated |-> now]
    /\ [video_id |-> v, niche |-> NICHES[niche_i], score |-> 7 * (10 * v) + 3 * v]
          \in entries

NotRecorded(v, niche, listed) ==
    /\ SameAsFile(v)
    /\ <<v, niche>> \notin listed

\* What holds of the detail requests in `log` of a run in progress: the
\* videos a request returned are scored and recorded, the ids of a failed
\* request are not, and when the batch loop of the niche has ended every id
\* to fetch was requested.
BatchesRespected(log) ==
    LET entries == Range(output)
        listed == {<<output[j].video_id, output[j].niche>> : j \in 1..Len(output)}
    IN (Running /\ niche_i <= Len(NICHES)) =>
        /\ \A i \in PassLog :
              batch_log[i].ok => \A v \in batch_log[i].items : Recorded(v, entries)
        /\ \A i \in log :
              ~batch_log[i].ok =>
                  \A v \in Range(batch_log[i].ids) :
                      NotRecorded(v, NICHES[batch_log[i].niche], listed)
        /\ rpc = "cached" =>
              UNION {Range(batch_log[i].ids) : i \in PassLog} = unique_video_ids

\* C10 (as claimed): when a detail request fails the remaining batches are
\* still requested and recorded, and the ids of the failed batch get no new
\* score and no rewritten record in the rest of the run.
C10_FailedBatchSkippedInRun == BatchesRespected(1..Len(batch_log))

\* C10 (amended): ... and the ids of the failed batch get no new score and
\* no rewritten record in the pass of that niche.
C10_FailedBatchSkippedInPass == BatchesRespected(PassLog)

\* C10 witness: the batch loop of a niche has ended with a failed request
\* followed by a request that returned videos.
C10_Witness ==
    /\ rpc = "cached"
    /\ \E i, j \in PassLog :
          /\ i < j
          /\ ~batch_log[i].ok
          /\ batch_log[j].ok
          /\ batch_log[j].items # {}

----------------------------------------------------------------------------
(* Claims about video_score and the filter of rank_videos, checked under   *)
(* SpecScore.                                                               *)

\* The score of the formula of the claim, computed in integers over one
\* common denominator: with VL = vn/vd and AVD = an/ad,
\*   E = (100 an vd - 60 ad vn) / (40 ad vn) when that is positive, else 0,
\*   L = (50 vd - 3 |vn - 12 vd|) / (50 vd) for 9 <= VL <= 17, else 0,
\*   A = a2 / 2 with a2 = 0, 2 or 1,
\* and 20 * finalScore = 10 E + 6 L + 4 A.
ExpectedScore ==
    LET En == IF 100 * AVD.n * VL.d > 60 * AVD.d * VL.n
              THEN 100 * AVD.n * VL.d - 60 * AVD.d * VL.n ELSE 0
        Ed == 40 * AVD.d * VL.n
        Ln == IF 9 * VL.d <= VL.n /\ VL.n <= 17 * VL.d
              THEN 50 * VL.d - 3 * Abs(VL.n - 12 * VL.d) ELSE 0
        Ld == 50 * VL.d
        a2 == IF VA_weeks.n < 6 * VA_weeks.d THEN 0
              ELSE IF VA_weeks.n <= 78 * VA_weeks.d THEN 2 ELSE 1
    IN Rat(10 * En * Ld + 6 * Ln * Ed + 2 * a2 * Ed * Ld, 20 * Ed * Ld)

\* C14: for every input with VL > 0 the value video_score returns is
\* 0.5*E + 0.3*L + 0.2*A of the formula.
C14_ScoreFormula ==
    scpc \in {"scored", "filtered"} => final_score = ExpectedScore

\* C14 witness: VL = 12, AVD = 8.4, age = 20 weeks scored 0.625.
C14_Witness ==
    /\ scpc = "scored"
    /\ VL = R(12) /\ AVD = Rat(42, 5) /\ VA_weeks = R(20)
    /\ final_score = Rat(625, 1000)

\* C16: a candidate the filter keeps has its duration in [9, 17] minutes,
\* its age in [6, 78] weeks and APV >= 60; so a candidate with any one of
\* the three outside its band is excluded.
C16_KeptOnlyInAllBands ==
    (scpc = "filtered" /\ kept) =>
        /\ 9 * VL.d <= VL.n /\ VL.n <= 17 * VL.d
        /\ 6 * VA_weeks.d <= VA_weeks.n /\ VA_weeks.n <= 78 * VA_weeks.d
        /\ 100 * AVD.n * VL.d >= 60 * AVD.d * VL.n

\* C16 witness: a candidate with only its age outside the band (duration 12,
\* APV 100, age 100 weeks, score 0.9) went through the filter and was
\* excluded.
C16_Witness ==
    /\ scpc = "filtered"
    /\ VL = R(12) /\ AVD = R(12) /\ VA_weeks = R(100)
    /\ final_score = Rat(9, 10)
    /\ ~kept

----------------------------------------------------------------------------
(* Claims about get_video_details, rank_videos and select_top_video,       *)
(* checked under SpecRank.                                                  *)

\* A text of the pattern PT#H#M#S: PT followed by at least one of #H, #M and
\* #S, in that order, and nothing else.
IsDurationText(t) ==
    /\ t # NullValue
    /\ DurationMatch(t).matched
    /\ DurationMatch(t).end = Len(t) + 1
    /\ DurationMatch(t).h.present \/ DurationMatch(t).m.present \/ DurationMatch(t).s.present

DetailsFetched == rkpc \in {"rank", "done", "raised"}

\* C12: for a duration that is not of the pattern PT#H#M#S,
\* iso8601_duration_to_minutes yields None, and the candidate is not in the
\* details get_video_details returns.
C12_UnparsedDurationDropped ==
    \A i \in 1..Len(candidates) :
        ~IsDurationText(candidates[i].duration) =>
            /\ iso8601_duration_to_minutes(candidates[i].duration) = Unknown
            /\ DetailsFetched => candidates[i].video_id \notin DOMAIN details

\* C13: a candidate whose publishedAt cannot be parsed has no age inside the
\* band 6 <= VA_weeks <= 78 in the details.
C13_UnparsedAgeIneligible ==
    \A i \in 1..Len(candidates) :
        (~candidates[i].published_at.parses /\ candidates[i].video_id \in DOMAIN details)
           => ~( /\ RLe(R(6), details[candidates[i].video_id].VA_weeks)
                 /\ RLe(details[candidates[i].video_id].VA_weeks, R(78)) )

\* C15: rank_videos does not fail on a candidate whose duration is 0.
C15_ZeroDurationScored ==
    \A v \in DOMAIN details : details[v].VL = R(0) => rkpc # "raised"

\* C19: every candidate in details has APV = 70 and a score of at most
\* 0.625, no candidate is kept, and select_top_video returns None whatever
\* the detail provider answered.
ProxyScores ==
    \A v \in DOMAIN details :
        details[v].VL # R(0) =>
            /\ APV(details[v].AVD, details[v].VL) = R(70)
            /\ RLe(video_score(details[v].AVD, details[v].VL, details[v].VA_weeks),
                   Rat(625, 1000))

C19_NeverSelects ==
    /\ ProxyScores
    /\ filtered = <<>>
    /\ rkpc = "done" => top_video = Unknown
    /\ rkpc # "raised"

\* What holds of C19: a call that returns, returns None.
ReturnsNoneIfAtAll ==
    /\ ProxyScores
    /\ filtered = <<>>
    /\ rkpc = "done" => top_video = Unknown

----------------------------------------------------------------------------
(* Claims about one pass of find_qualified_video, checked under SpecPick.  *)

\* The finalScore and the viewCount of the videos, and the order of the ids.
\* main.py computes neither; they are what the ranking of the claim is
\* about: "c" has the most views of three videos of equal score.
FinalScoreOf == [v \in PickIds |-> Rat(5, 8)]

ViewCountOf == [v \in PickIds |-> IF v = "c" THEN 200 ELSE 100]

IdOrder == <<"a", "b", "c">>

IdIndex(v) == CHOOSE i \in 1..Len(IdOrder) : IdOrder[i] = v

\* u is before v in the ranking: higher finalScore, then higher viewCount,
\* then the smaller id.
RankedBefore(u, v) ==
    \/ RLt(FinalScoreOf[v], FinalScoreOf[u])
    \/ /\ FinalScoreOf[v] = FinalScoreOf[u]
       /\ \/ ViewCountOf[u] > ViewCountOf[v]
          \/ ViewCountOf[u] = ViewCountOf[v] /\ IdIndex(u) < IdIndex(v)

Qualifying == {v \in Range(response) : v \notin history /\ v \in transcripts}

\* C17: the candidate returned is the first of the qualifying candidates in
\* the ranking, whatever the order of the response.
C17_SelectsBestRanked ==
    ppc = "returned" =>
        /\ picked[1] \in Qualifying
        /\ \A u \in Qualifying : ~RankedBefore(u, picked[1])

\* C22: no video id occurs twice in the list output of a run of main().
C22_OutputIdsUnique ==
    Cardinality({output[i].video_id : i \in 1..Len(output)}) = Len(output)

====
